---- MODULE Spec2Model ----
(***************************************************************************)
(* The p5.js front end of the traffic-light simulation                     *)
(* (src/frontend/sketch.js): the vehicle kinematics, the simulation loop   *)
(* and the client side of the controller protocol (poll, push, reports).   *)
(*                                                                         *)
(* Lengths and speeds are fixed-point numbers in hundredths of a pixel:    *)
(* the canvas is 600 px = 60000, a car's acceleration 0.08 px/frame = 8.   *)
(* Times are milliseconds; millis() advances by one frame time per frame   *)
(* drawn.  A JavaScript number that may be NaN is a record [nan, n];       *)
(* undefined is the string "undefined", an unset timestamp -1.  Drawing    *)
(* and the DOM are left out.                                               *)
(***************************************************************************)
EXTENDS Integers, Sequences, FiniteSets, TLC

VARIABLES
  cars,                \* the cars array, in array order
  lights,              \* the four TrafficLight objects, in push order
  timeToNextChange,
  currentIntersection,
  API_URL,
  WS,                  \* the socket the global WS refers to (0: null)
  sockets,             \* every WebSocket object created so far: [url, state]
  timers,              \* pending setTimeout(initWebSocket, ...) callbacks
  polls,               \* getLightState calls awaiting their response
  spawnTasks,          \* updateAndSpawn calls suspended at an await
  outbox,              \* the requests the last handler sent
  submits,             \* spawn requests made so far
  totalCarsPassed,
  totalWaitTime,       \* in milliseconds (the code keeps seconds)
  carsExited,
  frameCount,          \* p5's frame counter; millis() is derived from it
  rng,                 \* state of the generator behind random()
  nextId,              \* identity of the next Car object
  console              \* the messages console.error has logged

vars == <<cars, lights, timeToNextChange, currentIntersection, API_URL, WS,
          sockets, timers, polls, spawnTasks, outbox, submits,
          totalCarsPassed, totalWaitTime, carsExited, frameCount, rng, nextId,
          console>>

phaseVars == <<lights, timeToNextChange>>

(***************************************************************************)
(* Bounds of the model                                                     *)
(***************************************************************************)
MaxFrames == 2          \* frames drawn in Spec
MaxDriveFrames == 220   \* frames drawn in SpecDrive
MaxSubmits == 2         \* form submissions
MaxSockets == 3         \* WebSocket objects created
MaxPolls == 2           \* state polls in flight at once
MaxDriveSubmits == 2    \* presets spawned in SpecDrive, the first at time 0

(***************************************************************************)
(* Program constants                                                       *)
(***************************************************************************)
width == 60000
height == 60000
roadWidth == 10000
laneWidth == roadWidth \div 2
carHeight == 3000
safeGap == 4500
stopBuffer == 1000
vMaxBase == 300
vMaxSpread == 50
accBase == 8
accSpread == 4
brakeBase == 25
brakeSpread == 5
spawnOffset == 2000
spawnSpacing == 4000
offscreenMargin == 5000
waitingSpeed == 20
queueWindow == 6000
frameMs == 16

Undefined == "undefined"
Directions == {"north", "south", "east", "west"}

Max(a, b) == IF a >= b THEN a ELSE b
Min(a, b) == IF a <= b THEN a ELSE b

(***************************************************************************)
(* random(): a generator with hidden state, here one of eight states       *)
(* stepped through in a fixed order.  Random(s, hi) is the value           *)
(* random(hi) returns in state s (s eighths of hi), RngSkip(s, n) the      *)
(* state n draws later.                                                    *)
(***************************************************************************)
Seeds == {0}
DriveSeeds == {0}
RngSkip(s, n) == (s + 3 * n) % 8
Random(s, hi) == (hi * s) \div 8

millis(fc) == fc * frameMs

(***************************************************************************)
(* class TrafficLight                                                      *)
(***************************************************************************)
TrafficLight(color, orientation) == [color |-> color, orientation |-> orientation]

(***************************************************************************)
(* class Car                                                               *)
(***************************************************************************)
\* Car.constructor: six draws, for vMax, acc, brake and the three colour
\* channels; s is the generator's state before the first.
Car(id, x, y, direction, s) ==
  LET s2 == RngSkip(s, 1)
      s3 == RngSkip(s, 2)
  IN [id |-> id, x |-> x, y |-> y, direction |-> direction,
      v |-> 0,
      vMax |-> vMaxBase + Random(s, vMaxSpread),
      acc |-> accBase + Random(s2, accSpread),
      brake |-> brakeBase + Random(s3, brakeSpread),
      stopped |-> FALSE,
      spawnedAt |-> -1,
      exitedAt |-> -1]

isOffscreen(c) ==
  \/ c.x < -offscreenMargin
  \/ c.x > width + offscreenMargin
  \/ c.y < -offscreenMargin
  \/ c.y > height + offscreenMargin

\* lights.find(l => l.orientation === ...): the first light of the axis
getRelevantLight(c, ls) ==
  LET o == IF c.direction \in {"north", "south"} THEN "vertical" ELSE "horizontal"
      i == CHOOSE k \in 1..Len(ls) :
             /\ ls[k].orientation = o
             /\ \A j \in 1..(k - 1) : ls[j].orientation # o
  IN ls[i]

distanceToStop(c) ==
  CASE c.direction = "north" -> (height \div 2 - roadWidth) - (c.y + carHeight \div 2)
    [] c.direction = "south" -> (c.y - carHeight \div 2) - (height \div 2 + roadWidth)
    [] c.direction = "east" -> (c.x - carHeight \div 2) - (width \div 2 + roadWidth)
    [] c.direction = "west" -> (width \div 2 - roadWidth) - (c.x + carHeight \div 2)

isAtStopLine(c) == distanceToStop(c) <= stopBuffer + 100

isWaiting(c) == c.stopped \/ c.v < waitingSpeed

isBehind(c, other) ==
  CASE c.direction = "north" -> c.y < other.y
    [] c.direction = "south" -> c.y > other.y
    [] c.direction = "east" -> c.x > other.x
    [] c.direction = "west" -> c.x < other.x

distanceAlongLaneTo(c, other) ==
  CASE c.direction = "north" -> other.y - c.y
    [] c.direction = "south" -> c.y - other.y
    [] c.direction = "east" -> c.x - other.x
    [] c.direction = "west" -> other.x - c.x

gapTo(c, other) == distanceAlongLaneTo(c, other) - carHeight

\* The indices of the cars the scan of getCarAhead does not skip
aheadCandidates(c, cs) ==
  {j \in 1..Len(cs) :
     /\ cs[j].id # c.id
     /\ cs[j].direction = c.direction
     /\ isBehind(c, cs[j])
     /\ distanceAlongLaneTo(c, cs[j]) > 0}

\* getCarAhead: the index in cs of the nearest car ahead, the first in array
\* order among equals; 0 for null
getCarAhead(c, cs) ==
  LET cand == aheadCandidates(c, cs)
      dists == {distanceAlongLaneTo(c, cs[j]) : j \in cand}
      bestDist == CHOOSE d \in dists : \A e \in dists : d <= e
  IN IF cand = {} THEN 0
     ELSE CHOOSE j \in cand :
            /\ distanceAlongLaneTo(c, cs[j]) = bestDist
            /\ \A k \in cand : distanceAlongLaneTo(c, cs[k]) = bestDist => j <= k

mustStopForLight(c, ls) == getRelevantLight(c, ls).color \in {"red", "yellow"}

needBrakeForCar(c, cs) ==
  LET ahead == getCarAhead(c, cs)
  IN ahead # 0 /\ gapTo(c, cs[ahead]) < safeGap

\* Mutant: the braking distance forgotten, only the stop buffer compared
withinStopBufferOnly(c) == distanceToStop(c) <= stopBuffer

\* distToStop <= max(0, v*v / (2*brake) + stopBuffer), cleared of the division
withinBrakingDistance(c) ==
  (distanceToStop(c) - stopBuffer) * 2 * c.brake <= c.v * c.v

brakeSpeed(c) == Max(0, c.v - c.brake)

\* Mutant: the cap at vMax forgotten
accelSpeedUncapped(c) == c.v + c.acc

accelSpeed(c) == Min(c.vMax, c.v + c.acc)

\* Integrate position
integrate(c) ==
  IF c.stopped THEN c
  ELSE CASE c.direction = "north" -> [c EXCEPT !.y = c.y + c.v]
         [] c.direction = "south" -> [c EXCEPT !.y = c.y - c.v]
         [] c.direction = "east" -> [c EXCEPT !.x = c.x - c.v]
         [] c.direction = "west" -> [c EXCEPT !.x = c.x + c.v]

\* Mutant: two separate ifs for the two constraints, so that a car both
\* constraints apply to brakes twice
updateBrakesTwice(c, cs, ls) ==
  LET c0 == [c EXCEPT !.stopped = FALSE]
      forLight == mustStopForLight(c0, ls) /\ withinBrakingDistance(c0)
      forCar == needBrakeForCar(c0, cs)
      c1 == IF forLight
            THEN LET b == [c0 EXCEPT !.v = brakeSpeed(c0)]
                 IN [b EXCEPT !.stopped = (b.v = 0 /\ isAtStopLine(b))]
            ELSE c0
      c2 == IF forCar THEN [c1 EXCEPT !.v = brakeSpeed(c1)] ELSE c1
      c3 == IF ~forLight /\ ~forCar THEN [c2 EXCEPT !.v = accelSpeed(c2)] ELSE c2
  IN integrate(c3)

\* Car.update, for car c of the array cs under the lights ls
update(c, cs, ls) ==
  LET c0 == [c EXCEPT !.stopped = FALSE]
      c1 == IF mustStopForLight(c0, ls) /\ withinBrakingDistance(c0)
            THEN LET b == [c0 EXCEPT !.v = brakeSpeed(c0)]
                 IN [b EXCEPT !.stopped = (b.v = 0 /\ isAtStopLine(b))]
            ELSE IF needBrakeForCar(c0, cs)
            THEN [c0 EXCEPT !.v = brakeSpeed(c0)]
            ELSE [c0 EXCEPT !.v = accelSpeed(c0)]
  IN integrate(c1)

(***************************************************************************)
(* JavaScript numbers that may be NaN (the results of parseInt)            *)
(***************************************************************************)
Num(n) == [nan |-> FALSE, n |-> n]
NaN == [nan |-> TRUE, n |-> 0]

\* i < d, for an integer i: false when d is NaN
lessThan(i, d) == ~d.nan /\ i < d.n

\* a + b
plus(a, b) == IF a.nan \/ b.nan THEN NaN ELSE Num(a.n + b.n)

\* a >= b: false when either is NaN
greaterEq(a, b) == ~a.nan /\ ~b.nan /\ a.n >= b.n

\* parseInt(text, 10) of a form field
parseInt(text) ==
  CASE text = "0" -> Num(0)
    [] text = "1" -> Num(1)
    [] text = "2" -> Num(2)
    [] text = "3" -> Num(3)
    [] text = "-1" -> Num(0 - 1)
    [] text = "2.7" -> Num(2)
    [] OTHER -> NaN

Counts(n, s, e, w) == [north |-> Num(n), south |-> Num(s), east |-> Num(e), west |-> Num(w)]

\* The argument simulateScenario passes to spawnCars
scenarioCounts(type) ==
  CASE type = "normal" -> Counts(5, 4, 8, 6)
    [] type = "rush" -> Counts(3, 3, 20, 18)
    [] type = "accident" -> Counts(15, 2, 0, 2)
    [] OTHER -> Counts(0, 0, 0, 0)

(***************************************************************************)
(* spawnCars                                                               *)
(***************************************************************************)
spawnX(direction, i) ==
  CASE direction = "north" -> width \div 2 - laneWidth \div 2
    [] direction = "south" -> width \div 2 + laneWidth \div 2
    [] direction = "east" -> width + spawnOffset + i * spawnSpacing
    [] direction = "west" -> (0 - spawnOffset) - i * spawnSpacing

spawnY(direction, i) ==
  CASE direction = "north" -> (0 - spawnOffset) - i * spawnSpacing
    [] direction = "south" -> height + spawnOffset + i * spawnSpacing
    [] direction = "east" -> height \div 2 - laneWidth \div 2
    [] direction = "west" -> height \div 2 + laneWidth \div 2

\* Mutant: the loop written with i <= count
iterationsInclusive(count) == IF ~count.nan /\ count.n >= 0 THEN count.n + 1 ELSE 0

\* The number of times the body of for (i = 0; i < count; i++) runs
iterations(count) == IF lessThan(0, count) THEN count.n ELSE 0

\* One of the four loops of spawnCars.  g is [cars, rng, nextId]; t is millis().
spawnLane(g, direction, count, t) ==
  LET n == iterations(count)
      new == [i \in 1..n |->
                [Car(g.nextId + i - 1, spawnX(direction, i - 1), spawnY(direction, i - 1),
                     direction, RngSkip(g.rng, 6 * (i - 1)))
                   EXCEPT !.spawnedAt = t]]
  IN [cars |-> g.cars \o new, rng |-> RngSkip(g.rng, 6 * n), nextId |-> g.nextId + n]

spawnCars(g, data, t) ==
  LET n == spawnLane(g, "north", data.north, t)
      s == spawnLane(n, "south", data.south, t)
      e == spawnLane(s, "east", data.east, t)
  IN spawnLane(e, "west", data.west, t)

(***************************************************************************)
(* The sensor estimates                                                    *)
(***************************************************************************)
\* Mutant: inX || inY for inX && inY
inIntersectionEither(c) ==
  \/ c.x > width \div 2 - roadWidth /\ c.x < width \div 2 + roadWidth
  \/ c.y > height \div 2 - roadWidth /\ c.y < height \div 2 + roadWidth

inIntersection(c) ==
  /\ c.x > width \div 2 - roadWidth
  /\ c.x < width \div 2 + roadWidth
  /\ c.y > height \div 2 - roadWidth
  /\ c.y < height \div 2 + roadWidth

estimateOccupancy(cs) == Cardinality({j \in 1..Len(cs) : inIntersection(cs[j])})

\* The test of estimateQueues for one car: waiting, and less than 60 px
\* from its stop line
nearStopLine(c) == isWaiting(c) /\ distanceToStop(c) < queueWindow

estimateQueues(cs) ==
  [d \in Directions |->
     Cardinality({j \in 1..Len(cs) : cs[j].direction = d /\ nearStopLine(cs[j])})]

countDeparturesSinceLastTick == [d \in Directions |-> 0]

(***************************************************************************)
(* draw: the loop over the cars, from the last index down                  *)
(***************************************************************************)
splice(s, i) == SubSeq(s, 1, i - 1) \o SubSeq(s, i + 1, Len(s))

\* Mutant: the wait taken as spawn minus exit
countExitReversed(st, c, t) ==
  IF c.exitedAt = -1
  THEN [st EXCEPT !.passed = st.passed + 1,
                  !.wait = IF c.spawnedAt # -1 THEN st.wait + (c.spawnedAt - t) ELSE st.wait,
                  !.exited = IF c.spawnedAt # -1 THEN st.exited + 1 ELSE st.exited]
  ELSE st

\* The statistics update for car c leaving at time t.  st is
\* [cars, passed, wait, exited].
countExit(st, c, t) ==
  IF c.exitedAt = -1
  THEN [st EXCEPT !.passed = st.passed + 1,
                  !.wait = IF c.spawnedAt # -1 THEN st.wait + (t - c.spawnedAt) ELSE st.wait,
                  !.exited = IF c.spawnedAt # -1 THEN st.exited + 1 ELSE st.exited]
  ELSE st

RECURSIVE drawLoopSkips(_, _, _, _)
\* Mutant: the index decremented once more after a splice
drawLoopSkips(i, st, ls, t) ==
  IF i <= 0 THEN st
  ELSE LET c == update(st.cars[i], st.cars, ls)
           moved == [st EXCEPT !.cars[i] = c]
       IN IF isOffscreen(c)
          THEN drawLoopSkips(i - 2, [countExit(moved, c, t) EXCEPT !.cars = splice(moved.cars, i)], ls, t)
          ELSE drawLoopSkips(i - 1, moved, ls, t)

RECURSIVE drawLoop(_, _, _, _)
drawLoop(i, st, ls, t) ==
  IF i = 0 THEN st
  ELSE LET c == update(st.cars[i], st.cars, ls)
           moved == [st EXCEPT !.cars[i] = c]
       IN IF isOffscreen(c)
          THEN drawLoop(i - 1, [countExit(moved, c, t) EXCEPT !.cars = splice(moved.cars, i)], ls, t)
          ELSE drawLoop(i - 1, moved, ls, t)

(***************************************************************************)
(* Inbound snapshots                                                       *)
(***************************************************************************)
\* A state snapshot as the controller's JSON gives it: truthy is false for
\* null, hasLights false when data.lights is missing, a missing colour is
\* Undefined, hasTime false when time_to_next_change is missing or null.
Snapshot(truthy, hasLights, vertical, horizontal, hasTime, time) ==
  [truthy |-> truthy, hasLights |-> hasLights, vertical |-> vertical,
   horizontal |-> horizontal, hasTime |-> hasTime, time |-> time]

\* applyStateSnapshot on ph = [lights, timeToNextChange]
applyStateSnapshot(ph, data) ==
  IF ~data.truthy \/ ~data.hasLights THEN ph
  ELSE [lights |-> [k \in 1..Len(ph.lights) |->
                      IF ph.lights[k].orientation = "vertical"
                      THEN [ph.lights[k] EXCEPT !.color = data.vertical]
                      ELSE [ph.lights[k] EXCEPT !.color = data.horizontal]],
        timeToNextChange |-> IF data.hasTime THEN data.time ELSE 0]

(***************************************************************************)
(* The controller's address and the streaming connection                   *)
(***************************************************************************)
Url(scheme, host) == [scheme |-> scheme, host |-> host]
DefaultUrl == Url("http", "127.0.0.1:8000")
EmptyText == Url("", "")

\* API_URL.replace('http', 'ws') + '/ws'
wsUrl(u) ==
  [scheme |-> CASE u.scheme = "http" -> "ws"
                [] u.scheme = "https" -> "wss"
                [] OTHER -> u.scheme,
   host |-> u.host, path |-> "/ws"]

\* new WebSocket(url) throws a SyntaxError unless the scheme is ws or wss
constructorThrows(url) == url.scheme \notin {"ws", "wss"}

\* initWebSocket on net = [WS, sockets] with the address api
initWebSocket(net, api) ==
  IF constructorThrows(wsUrl(api)) THEN net
  ELSE [sockets |-> Append(net.sockets, [url |-> wsUrl(api), state |-> "connecting"]),
        WS |-> Len(net.sockets) + 1]

\* WS.close(): an open or connecting socket starts closing
closeSocket(sk) ==
  IF sk.state \in {"connecting", "open"} THEN [sk EXCEPT !.state = "closing"] ELSE sk

\* A pushed frame: parses is false when JSON.parse throws
Message(parses, type, data) == [parses |-> parses, type |-> type, data |-> data]

\* WS.onmessage on ph = [lights, timeToNextChange]
onmessage(ph, msg) ==
  IF msg.parses /\ msg.type = "state" THEN applyStateSnapshot(ph, msg.data) ELSE ph

(***************************************************************************)
(* Outbound requests                                                       *)
(***************************************************************************)
Request(endpoint, api, key, body) ==
  [endpoint |-> endpoint, url |-> api, key |-> key, body |-> body]

NoBody == [none |-> TRUE]

stateRequest(api, id) == Request("state", api, id, NoBody)

\* ns >= ew ? 'NS' : 'EW'
preferredPhase(data) ==
  IF greaterEq(plus(data.north, data.south), plus(data.east, data.west)) THEN "NS" ELSE "EW"

trafficRequest(api, id, data) ==
  Request("traffic", api, id, [counts |-> data, preferredPhase |-> preferredPhase(data)])

spawnSensorRequest(api, data, cs) ==
  Request("sensor", api, Undefined, [counts |-> data, occupancy |-> estimateOccupancy(cs)])

sensorRequest(api, cs) ==
  Request("sensor", api, Undefined,
          [arrivals |-> estimateQueues(cs),
           departures |-> countDeparturesSinceLastTick,
           occupancy |-> estimateOccupancy(cs)])

resetRequest(api, id) == Request("reset", api, id, NoBody)

healthRequest(api) == Request("health", api, Undefined, NoBody)

(***************************************************************************)
(* Inputs                                                                  *)
(***************************************************************************)
Intersections == {"main", "side"}

Form(n, s, e, w) == [north |-> n, south |-> s, east |-> e, west |-> w]
FormInputs == {Form("abc", "2", "-1", "0"), Form("2", "0", "1", "2.7")}

Scenarios == {"normal", "rush", "accident"}
SpawnFrames == {45}
LaterScenarios == {"normal"}

NullSnapshot == Snapshot(FALSE, FALSE, Undefined, Undefined, FALSE, 0)
Snapshots ==
  { NullSnapshot,
    Snapshot(TRUE, FALSE, Undefined, Undefined, TRUE, 9),
    Snapshot(TRUE, TRUE, "red", "green", TRUE, 7),
    Snapshot(TRUE, TRUE, "yellow", "red", FALSE, 0),
    Snapshot(TRUE, TRUE, "green", Undefined, TRUE, 4) }

Messages ==
  { Message(FALSE, Undefined, NullSnapshot),
    Message(TRUE, "ping", NullSnapshot) }
  \cup {Message(TRUE, "state", d) : d \in Snapshots}

\* What the controller answers a poll with in Spec
PollSnapshots == {NullSnapshot, Snapshot(TRUE, TRUE, "red", "green", TRUE, 7)}

AllRed == Snapshot(TRUE, TRUE, "red", "red", TRUE, 30)
DriveMessages == {Message(TRUE, "state", AllRed)}

UrlInputs == {EmptyText, Url("http", "10.0.0.2:8000"), Url("", "localhost:8000")}

(***************************************************************************)
(* The state after setup()                                                 *)
(***************************************************************************)
Init ==
  /\ cars = <<>>
  /\ lights = << TrafficLight("green", "vertical"), TrafficLight("green", "vertical"),
                 TrafficLight("red", "horizontal"), TrafficLight("red", "horizontal") >>
  /\ timeToNextChange = 0
  /\ currentIntersection = "main"
  /\ API_URL = DefaultUrl
  /\ WS = 1
  /\ sockets = << [url |-> wsUrl(DefaultUrl), state |-> "connecting"] >>
  /\ timers = 0
  /\ polls = <<>>
  /\ spawnTasks = <<>>
  /\ outbox = <<>>
  /\ submits = 0
  /\ totalCarsPassed = 0
  /\ totalWaitTime = 0
  /\ carsExited = 0
  /\ frameCount = 0
  /\ rng \in Seeds
  /\ nextId = 1
  /\ console = {}

(***************************************************************************)
(* The simulation                                                          *)
(***************************************************************************)
\* Mutant: a local countdown that swaps the phases when the time is up
drawSwitchesOnTimeout(limit) ==
  /\ UNCHANGED console
  /\ frameCount < limit
  /\ LET st == drawLoop(Len(cars),
                        [cars |-> cars, passed |-> totalCarsPassed,
                         wait |-> totalWaitTime, exited |-> carsExited],
                        lights, millis(frameCount + 1))
     IN /\ cars' = st.cars
        /\ totalCarsPassed' = st.passed
        /\ totalWaitTime' = st.wait
        /\ carsExited' = st.exited
  /\ frameCount' = frameCount + 1
  /\ outbox' = <<>>
  /\ lights' = IF timeToNextChange = 0
                THEN [k \in 1..Len(lights) |->
                        [lights[k] EXCEPT !.color = IF @ = "green" THEN "red" ELSE "green"]]
                ELSE lights
  /\ UNCHANGED <<timeToNextChange, currentIntersection, API_URL, WS, sockets,
                 timers, polls, spawnTasks, submits, rng, nextId>>

\* draw(), one frame; limit bounds the frames drawn
draw(limit) ==
  /\ UNCHANGED console
  /\ frameCount < limit
  /\ LET st == drawLoop(Len(cars),
                        [cars |-> cars, passed |-> totalCarsPassed,
                         wait |-> totalWaitTime, exited |-> carsExited],
                        lights, millis(frameCount + 1))
     IN /\ cars' = st.cars
        /\ totalCarsPassed' = st.passed
        /\ totalWaitTime' = st.wait
        /\ carsExited' = st.exited
  /\ frameCount' = frameCount + 1
  /\ outbox' = <<>>
  /\ UNCHANGED <<lights, timeToNextChange, currentIntersection, API_URL, WS, sockets,
                 timers, polls, spawnTasks, submits, rng, nextId>>

\* The effect of spawnCars(data) on the cars, the generator and the identities
spawn(data) ==
  LET g == spawnCars([cars |-> cars, rng |-> rng, nextId |-> nextId], data, millis(frameCount))
  IN /\ cars' = g.cars
     /\ rng' = g.rng
     /\ nextId' = g.nextId

\* updateAndSpawn up to its first await: the form is read, the traffic report sent
updateAndSpawn(form) ==
  /\ UNCHANGED console
  /\ submits < MaxSubmits
  /\ submits' = submits + 1
  /\ LET data == [d \in Directions |-> parseInt(form[d])]
     IN /\ outbox' = << trafficRequest(API_URL, currentIntersection, data) >>
        /\ spawnTasks' = Append(spawnTasks, [stage |-> "traffic", data |-> data])
  /\ UNCHANGED <<cars, lights, timeToNextChange, currentIntersection, API_URL, WS, sockets,
                 timers, polls, totalCarsPassed, totalWaitTime, carsExited, frameCount,
                 rng, nextId>>

\* Mutant: one try block around both reports and the spawn, so that a failed
\* traffic report ends the request
trafficSettledAborts(i, ok) ==
  /\ i \in 1..Len(spawnTasks)
  /\ spawnTasks[i].stage = "traffic"
  /\ console' = IF ok THEN console ELSE console \cup {"Error sending traffic data:"}
  /\ outbox' = IF ok THEN << spawnSensorRequest(API_URL, spawnTasks[i].data, cars) >> ELSE <<>>
  /\ spawnTasks' = IF ok THEN [spawnTasks EXCEPT ![i].stage = "sensor"] ELSE splice(spawnTasks, i)
  /\ UNCHANGED <<cars, lights, timeToNextChange, currentIntersection, API_URL, WS, sockets,
                 timers, polls, submits, totalCarsPassed, totalWaitTime, carsExited,
                 frameCount, rng, nextId>>

\* updateAndSpawn from the traffic report's settling (ok or not: the catch
\* swallows a failure) to its second await: the sensor report is sent
trafficSettled(i, ok) ==
  /\ i \in 1..Len(spawnTasks)
  /\ spawnTasks[i].stage = "traffic"
  /\ console' = IF ok THEN console ELSE console \cup {"Error sending traffic data:"}
  /\ outbox' = << spawnSensorRequest(API_URL, spawnTasks[i].data, cars) >>
  /\ spawnTasks' = [spawnTasks EXCEPT ![i].stage = "sensor"]
  /\ UNCHANGED <<cars, lights, timeToNextChange, currentIntersection, API_URL, WS, sockets,
                 timers, polls, submits, totalCarsPassed, totalWaitTime, carsExited,
                 frameCount, rng, nextId>>

\* updateAndSpawn from the sensor report's settling to its end: spawnCars(data)
sensorSettled(i, ok) ==
  /\ UNCHANGED console
  /\ i \in 1..Len(spawnTasks)
  /\ spawnTasks[i].stage = "sensor"
  /\ spawn(spawnTasks[i].data)
  /\ spawnTasks' = splice(spawnTasks, i)
  /\ outbox' = <<>>
  /\ UNCHANGED <<lights, timeToNextChange, currentIntersection, API_URL, WS, sockets,
                 timers, polls, submits, totalCarsPassed, totalWaitTime, carsExited,
                 frameCount>>

\* getLightState up to its await, as the 1 s timer calls it
getLightState ==
  /\ UNCHANGED console
  /\ Len(polls) < MaxPolls
  /\ polls' = Append(polls, [key |-> currentIntersection, url |-> API_URL])
  /\ outbox' = << stateRequest(API_URL, currentIntersection) >>
  /\ UNCHANGED <<cars, lights, timeToNextChange, currentIntersection, API_URL, WS, sockets,
                 timers, spawnTasks, submits, totalCarsPassed, totalWaitTime, carsExited,
                 frameCount, rng, nextId>>

\* getLightState from its response on: the snapshot is applied
pollResponse(i, data) ==
  /\ UNCHANGED console
  /\ i \in 1..Len(polls)
  /\ LET ph == applyStateSnapshot([lights |-> lights, timeToNextChange |-> timeToNextChange], data)
     IN /\ lights' = ph.lights
        /\ timeToNextChange' = ph.timeToNextChange
  /\ polls' = splice(polls, i)
  /\ outbox' = <<>>
  /\ UNCHANGED <<cars, currentIntersection, API_URL, WS, sockets, timers, spawnTasks,
                 submits, totalCarsPassed, totalWaitTime, carsExited, frameCount, rng, nextId>>

\* getLightState when fetch or response.json() rejects: logged, nothing else
pollFailure(i) ==
  /\ i \in 1..Len(polls)
  /\ console' = console \cup {"Error fetching light state:"}
  /\ polls' = splice(polls, i)
  /\ outbox' = <<>>
  /\ UNCHANGED <<cars, lights, timeToNextChange, currentIntersection, API_URL, WS, sockets,
                 timers, spawnTasks, submits, totalCarsPassed, totalWaitTime, carsExited,
                 frameCount, rng, nextId>>

\* Mutant: cars = [] forgotten
switchIntersectionKeepsCars(id) ==
  /\ UNCHANGED console
  /\ Len(polls) < MaxPolls
  /\ currentIntersection' = id
  /\ polls' = Append(polls, [key |-> id, url |-> API_URL])
  /\ outbox' = << stateRequest(API_URL, id) >>
  /\ UNCHANGED <<cars, lights, timeToNextChange, API_URL, WS, sockets, timers, spawnTasks,
                 submits, totalCarsPassed, totalWaitTime, carsExited, frameCount, rng, nextId>>

switchIntersection(id) ==
  /\ UNCHANGED console
  /\ Len(polls) < MaxPolls
  /\ currentIntersection' = id
  /\ cars' = <<>>
  /\ polls' = Append(polls, [key |-> id, url |-> API_URL])
  /\ outbox' = << stateRequest(API_URL, id) >>
  /\ UNCHANGED <<lights, timeToNextChange, API_URL, WS, sockets, timers, spawnTasks,
                 submits, totalCarsPassed, totalWaitTime, carsExited, frameCount, rng, nextId>>

sendSensorUpdate ==
  /\ UNCHANGED console
  /\ outbox' = << sensorRequest(API_URL, cars) >>
  /\ UNCHANGED <<cars, lights, timeToNextChange, currentIntersection, API_URL, WS, sockets,
                 timers, polls, spawnTasks, submits, totalCarsPassed, totalWaitTime,
                 carsExited, frameCount, rng, nextId>>

resetIntersection ==
  /\ UNCHANGED console
  /\ outbox' = << resetRequest(API_URL, currentIntersection) >>
  /\ UNCHANGED <<cars, lights, timeToNextChange, currentIntersection, API_URL, WS, sockets,
                 timers, polls, spawnTasks, submits, totalCarsPassed, totalWaitTime,
                 carsExited, frameCount, rng, nextId>>

\* simulateScenario(type), as a preset button calls it; limit bounds the
\* presets spawned, SpawnFrames are the frames at which the button is pressed
simulateScenario(type, limit) ==
  /\ UNCHANGED console
  /\ submits < limit
  /\ frameCount \in SpawnFrames
  /\ submits' = submits + 1
  /\ spawn(scenarioCounts(type))
  /\ outbox' = <<>>
  /\ UNCHANGED <<lights, timeToNextChange, currentIntersection, API_URL, WS, sockets, timers,
                 polls, spawnTasks, totalCarsPassed, totalWaitTime, carsExited, frameCount>>

(***************************************************************************)
(* The streaming connection                                                *)
(***************************************************************************)
\* A setTimeout(initWebSocket, ...) callback runs
reconnectTimer ==
  /\ timers > 0
  /\ console' = IF constructorThrows(wsUrl(API_URL)) THEN console \cup {"WS error"} ELSE console
  /\ Len(sockets) < MaxSockets
  /\ timers' = timers - 1
  /\ LET net == initWebSocket([WS |-> WS, sockets |-> sockets], API_URL)
     IN /\ WS' = net.WS
        /\ sockets' = net.sockets
  /\ outbox' = <<>>
  /\ UNCHANGED <<cars, lights, timeToNextChange, currentIntersection, API_URL, polls,
                 spawnTasks, submits, totalCarsPassed, totalWaitTime, carsExited,
                 frameCount, rng, nextId>>

\* Socket s opens (onopen does nothing)
wsOpen(s) ==
  /\ UNCHANGED console
  /\ s \in 1..Len(sockets)
  /\ sockets[s].state = "connecting"
  /\ sockets' = [sockets EXCEPT ![s].state = "open"]
  /\ outbox' = <<>>
  /\ UNCHANGED <<cars, lights, timeToNextChange, currentIntersection, API_URL, WS, timers,
                 polls, spawnTasks, submits, totalCarsPassed, totalWaitTime, carsExited,
                 frameCount, rng, nextId>>

\* A frame arrives on socket s: its onmessage runs
wsMessage(s, msg) ==
  /\ UNCHANGED console
  /\ s \in 1..Len(sockets)
  /\ sockets[s].state = "open"
  /\ LET ph == onmessage([lights |-> lights, timeToNextChange |-> timeToNextChange], msg)
     IN /\ lights' = ph.lights
        /\ timeToNextChange' = ph.timeToNextChange
  /\ outbox' = <<>>
  /\ UNCHANGED <<cars, currentIntersection, API_URL, WS, sockets, timers, polls, spawnTasks,
                 submits, totalCarsPassed, totalWaitTime, carsExited, frameCount, rng, nextId>>

\* Socket s closes (the attempt failed, the peer closed, or close() finished):
\* its onclose schedules initWebSocket
wsClose(s) ==
  /\ UNCHANGED console
  /\ s \in 1..Len(sockets)
  /\ sockets[s].state \in {"connecting", "open", "closing"}
  /\ timers < MaxSockets
  /\ sockets' = [sockets EXCEPT ![s].state = "closed"]
  /\ timers' = timers + 1
  /\ outbox' = <<>>
  /\ UNCHANGED <<cars, lights, timeToNextChange, currentIntersection, API_URL, WS, polls,
                 spawnTasks, submits, totalCarsPassed, totalWaitTime, carsExited,
                 frameCount, rng, nextId>>

\* applyApiUrl with text v in #api-url (after trim)
applyApiUrl(v) ==
  /\ UNCHANGED console
  /\ timers < MaxSockets
  /\ IF v # EmptyText
     THEN /\ API_URL' = v
          /\ outbox' = << healthRequest(v) >>
          /\ sockets' = IF WS # 0 THEN [sockets EXCEPT ![WS] = closeSocket(sockets[WS])]
                        ELSE sockets
          /\ timers' = timers + 1
     ELSE /\ outbox' = <<>>
          /\ UNCHANGED <<API_URL, sockets, timers>>
  /\ UNCHANGED <<cars, lights, timeToNextChange, currentIntersection, WS, polls, spawnTasks,
                 submits, totalCarsPassed, totalWaitTime, carsExited, frameCount, rng, nextId>>

(***************************************************************************)
(* Specifications                                                          *)
(***************************************************************************)
\* The simulation and the polled protocol with the controller answering:
\* frames, spawn requests, the intersection selector, state polls and reports
Next ==
  \/ draw(MaxFrames)
  \/ \E form \in FormInputs : updateAndSpawn(form)
  \/ \E i \in 1..MaxSubmits : trafficSettled(i, TRUE)
  \/ \E i \in 1..MaxSubmits, ok \in BOOLEAN : sensorSettled(i, ok)
  \/ getLightState
  \/ \E i \in 1..MaxPolls, data \in PollSnapshots : pollResponse(i, data)
  \/ \E id \in Intersections : switchIntersection(id)
  \/ sendSensorUpdate
  \/ resetIntersection

Spec == Init /\ [][Next]_vars

\* The simulation with a controller that may be unreachable: polls and
\* reports fail or succeed
NextOffline ==
  \/ draw(MaxFrames)
  \/ \E form \in FormInputs : updateAndSpawn(form)
  \/ \E i \in 1..MaxSubmits, ok \in BOOLEAN : trafficSettled(i, ok)
  \/ \E i \in 1..MaxSubmits, ok \in BOOLEAN : sensorSettled(i, ok)
  \/ getLightState
  \/ \E i \in 1..MaxPolls, data \in PollSnapshots : pollResponse(i, data)
  \/ \E i \in 1..MaxPolls : pollFailure(i)
  \/ sendSensorUpdate

SpecOffline == Init /\ [][NextOffline]_vars

\* The streaming connection: address changes, reconnects, pushed frames, the
\* polls beside them and the intersection selector
NextSync ==
  \/ \E v \in UrlInputs : applyApiUrl(v)
  \/ reconnectTimer
  \/ \E s \in 1..MaxSockets : wsOpen(s)
  \/ \E s \in 1..MaxSockets, msg \in Messages : wsMessage(s, msg)
  \/ \E s \in 1..MaxSockets : wsClose(s)
  \/ getLightState
  \/ \E i \in 1..MaxPolls, data \in Snapshots : pollResponse(i, data)
  \/ \E i \in 1..MaxPolls : pollFailure(i)
  \/ \E id \in Intersections : switchIntersection(id)

SpecSync == Init /\ [][NextSync]_vars

\* A long drive: a preset is spawned at time 0, frames are drawn, the
\* controller may push an all-red phase at any frame, the sensor timer
\* reports, and a further preset may be spawned behind the cars on the road
InitDrive ==
  \E type \in Scenarios, seed \in DriveSeeds :
    LET g == spawnCars([cars |-> <<>>, rng |-> seed, nextId |-> 1], scenarioCounts(type), millis(0))
    IN /\ cars = g.cars
       /\ rng = g.rng
       /\ nextId = g.nextId
       /\ submits = 1
       /\ lights = << TrafficLight("green", "vertical"), TrafficLight("green", "vertical"),
                      TrafficLight("red", "horizontal"), TrafficLight("red", "horizontal") >>
       /\ timeToNextChange = 0
       /\ currentIntersection = "main"
       /\ API_URL = DefaultUrl
       /\ WS = 1
       /\ sockets = << [url |-> wsUrl(DefaultUrl), state |-> "open"] >>
       /\ timers = 0
       /\ polls = <<>>
       /\ spawnTasks = <<>>
       /\ outbox = <<>>
       /\ totalCarsPassed = 0
       /\ totalWaitTime = 0
       /\ carsExited = 0
       /\ frameCount = 0
       /\ console = {}

NextDrive ==
  \/ draw(MaxDriveFrames)
  \/ \E msg \in DriveMessages : wsMessage(1, msg)
  \/ sendSensorUpdate
  \/ \E type \in LaterScenarios : simulateScenario(type, MaxDriveSubmits)

SpecDrive == InitDrive /\ [][NextDrive]_vars

(***************************************************************************)
(* Properties                                                              *)
(***************************************************************************)
Colours == {"red", "yellow", "green"}

CarIds(cs) == {cs[j].id : j \in 1..Len(cs)}
CarWithId(cs, id) == cs[CHOOSE j \in 1..Len(cs) : cs[j].id = id]
CountIn(cs, d) == Cardinality({j \in 1..Len(cs) : cs[j].direction = d})

RECURSIVE WaitOf(_, _, _)
\* The summed exit-minus-spawn time of the cars of cs with an id in ids, leaving at t
WaitOf(cs, ids, t) ==
  IF ids = {} THEN 0
  ELSE LET id == CHOOSE x \in ids : TRUE
       IN (t - CarWithId(cs, id).spawnedAt) + WaitOf(cs, ids \ {id}, t)

\* The car can still stop before its stop line: v*v / (2*brake) <= distToStop
CanStop(c) == c.v * c.v <= 2 * c.brake * distanceToStop(c)

\* C1: every vehicle's speed is within [0, vMax] in every reachable state.
C1_SpeedWithinLimits ==
  \A j \in 1..Len(cars) : 0 <= cars[j].v /\ cars[j].v <= cars[j].vMax

\* A car runs at its maximum speed while another has braked to a halt at its stop line
C1_Witness ==
  \E i, j \in 1..Len(cars) :
    /\ cars[i].v = cars[i].vMax
    /\ cars[j].v = 0 /\ cars[j].stopped /\ frameCount > 0

\* C2: a vehicle's gap to its immediate leader in the same lane is never
\* negative (same-lane vehicles never overlap), newly spawned ones included.
C2_NoOverlap ==
  \A j \in 1..Len(cars) :
    LET ahead == getCarAhead(cars[j], cars)
    IN ahead # 0 => gapTo(cars[j], cars[ahead]) >= 0

C4_StaleSocketIgnored ==
  [][\A s \in 1..Len(sockets), msg \in Messages :
       (wsMessage(s, msg) /\ s # WS) => UNCHANGED phaseVars]_vars

\* A snapshot that is null, lacks lights, a valid colour for either axis, or
\* time_to_next_change
Malformed(data) ==
  \/ ~data.truthy
  \/ ~data.hasLights
  \/ data.vertical \notin Colours
  \/ data.horizontal \notin Colours
  \/ ~data.hasTime

\* C5: a malformed snapshot, polled or pushed, leaves every light's colour
\* and the remaining time as they were.
C5_MalformedSnapshotNoOp ==
  [][\A data \in Snapshots :
       (/\ Malformed(data)
        /\ \/ \E i \in 1..Len(polls) : pollResponse(i, data)
           \/ \E s \in 1..Len(sockets) : wsMessage(s, Message(TRUE, "state", data)))
       => UNCHANGED phaseVars]_vars

\* A spawn request with a count that is not a number or is negative
InvalidCounts(data) == \E d \in Directions : data[d].nan \/ data[d].n < 0

\* C6: a spawn request with an invalid count adds no vehicle at all.
C6_InvalidSpawnRejected ==
  [][\A i \in 1..Len(spawnTasks), ok \in BOOLEAN :
       (sensorSettled(i, ok) /\ InvalidCounts(spawnTasks[i].data)) => cars' = cars]_vars

\* C7: spawnCars with non-negative integer counts adds exactly the requested
\* number of vehicles in each direction, and as many in all as their sum.
C7_SpawnAddsExactly ==
  [][\A i \in 1..Len(spawnTasks), ok \in BOOLEAN :
       (/\ Len(spawnTasks') < Len(spawnTasks)
        /\ ~InvalidCounts(spawnTasks[i].data)
        /\ sensorSettled(i, ok)) =>
         LET data == spawnTasks[i].data
         IN /\ \A d \in Directions : CountIn(cars', d) = CountIn(cars, d) + data[d].n
            /\ Len(cars') = Len(cars) + data.north.n + data.south.n + data.east.n + data.west.n
            /\ SubSeq(cars', 1, Len(cars)) = cars]_vars

\* The form 2, 0, 1, 2.7 was spawned onto cars already on the road
C7_Witness ==
  /\ Len(cars) > 5
  /\ spawnTasks = <<>>
  /\ \E j \in 1..Len(cars) : cars[j].v > 0
  /\ \E j \in 1..Len(cars) : cars[j].direction = "east" /\ cars[j].spawnedAt = millis(frameCount)

\* C8: a frame adds to total-passed and to the exited count exactly the number
\* of vehicles it removes, and to the cumulative wait their exit-minus-spawn
\* times; no other step changes the three counters, so none ever decreases.
C8_StatsCountRemovals ==
  [][LET gone == CarIds(cars) \ CarIds(cars')
     IN IF frameCount' # frameCount
        THEN /\ totalCarsPassed' = totalCarsPassed + Cardinality(gone)
             /\ carsExited' = carsExited + Cardinality(gone)
             /\ totalWaitTime' = totalWaitTime + WaitOf(cars, gone, millis(frameCount'))
             /\ totalWaitTime' >= totalWaitTime
        ELSE UNCHANGED <<totalCarsPassed, carsExited, totalWaitTime>>]_vars

\* Frames have removed cars spawned at different times, and the intersection was switched
C8_Witness ==
  /\ totalCarsPassed >= 3
  /\ carsExited = totalCarsPassed
  /\ totalWaitTime >= totalCarsPassed * frameMs
  /\ currentIntersection # "main"

\* C9: switchIntersection empties the active set and issues a state poll
\* keyed by the identifier just selected; the set then grows only by a spawn.
C9_SwitchClearsAndRefetches ==
  [][/\ \A id \in Intersections :
          switchIntersection(id) =>
            /\ cars' = <<>>
            /\ currentIntersection' = id
            /\ Len(polls') = Len(polls) + 1
            /\ polls'[Len(polls')].key = id
            /\ outbox' = << stateRequest(API_URL, id) >>
     /\ Len(cars') > Len(cars) =>
          \E i \in 1..Len(spawnTasks), ok \in BOOLEAN : sensorSettled(i, ok)]_vars

\* Cars were on the road, the selector was switched, and the poll for the new
\* identifier is in flight
C9_Witness ==
  /\ cars = <<>>
  /\ nextId > 1
  /\ currentIntersection = "side"
  /\ polls # <<>>
  /\ polls[Len(polls)].key = "side"
  /\ outbox = << stateRequest(API_URL, "side") >>

\* C10: every state, traffic, sensor and reset request carries the selected
\* intersection identifier.
C10_RequestsKeyed ==
  \A k \in 1..Len(outbox) :
    outbox[k].endpoint \in {"state", "traffic", "sensor", "reset"}
      => outbox[k].key = currentIntersection

\* C11: whenever the current streaming connection is closed (or there is
\* none), a call of initWebSocket is scheduled.
C11_RetryScheduled ==
  (WS = 0 \/ sockets[WS].state = "closed") => timers > 0

StatVars == <<totalCarsPassed, totalWaitTime, carsExited>>

\* The cars a request for data adds: none for a count that is NaN or negative
Requested(data, d) == IF data[d].nan \/ data[d].n < 0 THEN 0 ELSE data[d].n

\* C12: a failed poll or report changes neither the vehicles, the statistics
\* nor the lights; the request whose reports fail goes on and spawns its
\* vehicles; frames leave the last-known lights in place.
C12_FailuresHarmless ==
  [][/\ \A i \in 1..Len(polls) :
          pollFailure(i) => UNCHANGED <<cars, StatVars, phaseVars, frameCount, spawnTasks>>
     /\ \A i \in 1..Len(spawnTasks) :
          trafficSettled(i, FALSE) =>
            /\ UNCHANGED <<cars, StatVars, phaseVars, frameCount>>
            /\ Len(spawnTasks') = Len(spawnTasks)
            /\ spawnTasks'[i] = [stage |-> "sensor", data |-> spawnTasks[i].data]
     /\ \A i \in 1..Len(spawnTasks) :
          (Len(spawnTasks') < Len(spawnTasks) /\ sensorSettled(i, FALSE)) =>
            /\ UNCHANGED <<StatVars, phaseVars, frameCount>>
            /\ \A d \in Directions :
                 CountIn(cars', d) = CountIn(cars, d) + Requested(spawnTasks[i].data, d)
     /\ frameCount' # frameCount => UNCHANGED phaseVars]_vars

\* The only request made had its traffic report fail, a poll failed too, and
\* the request's cars are on the road and moving under the polled lights
C12_Witness ==
  /\ submits = 1
  /\ spawnTasks = <<>>
  /\ console = {"Error fetching light state:", "Error sending traffic data:"}
  /\ lights[1].color = "red"
  /\ frameCount > 0
  /\ \E j \in 1..Len(cars) : cars[j].v > 0

\* C13: applyApiUrl with a non-empty value closes the current connection and
\* schedules initWebSocket, which opens a connection to the address then
\* set; switchIntersection leaves the connection as it is.
C13_AddressChangeReconnects ==
  [][/\ \A v \in UrlInputs :
          (v # EmptyText /\ applyApiUrl(v)) =>
            /\ API_URL' = v
            /\ WS # 0 => sockets'[WS].state \in {"closing", "closed"}
            /\ timers' = timers + 1
     /\ reconnectTimer =>
          /\ Len(sockets') = Len(sockets) + 1
          /\ WS' = Len(sockets')
          /\ sockets'[WS'] = [url |-> wsUrl(API_URL), state |-> "connecting"]
     /\ \A id \in Intersections :
          switchIntersection(id) => UNCHANGED <<WS, sockets, timers, API_URL>>]_vars

\* a > b in JavaScript: false when either is NaN
greaterThan(a, b) == ~a.nan /\ ~b.nan /\ a.n > b.n

\* C14: the hint of a traffic report is "EW" exactly when east + west >
\* north + south, and "NS" otherwise.
C14_PreferredPhase ==
  \A k \in 1..Len(outbox) :
    outbox[k].endpoint = "traffic" =>
      LET data == outbox[k].body.counts
          ew == plus(data.east, data.west)
          ns == plus(data.north, data.south)
      IN outbox[k].body.preferredPhase = (IF greaterThan(ew, ns) THEN "EW" ELSE "NS")

\* The position of c lies strictly inside the square of side 2 * roadWidth
\* centred on the intersection
StrictlyInside(c) ==
  /\ c.x - width \div 2 < roadWidth /\ width \div 2 - c.x < roadWidth
  /\ c.y - height \div 2 < roadWidth /\ height \div 2 - c.y < roadWidth

otherVars == <<cars, lights, timeToNextChange, currentIntersection, API_URL, WS, sockets,
               timers, polls, spawnTasks, submits, totalCarsPassed, totalWaitTime,
               carsExited, frameCount, rng, nextId, console>>

\* C15: the occupancy a sensor report carries is the number of cars strictly
\* inside the intersection box, whatever their direction or speed; computing
\* it changes no state, and computing it again gives the same number.
C15_OccupancyPureRead ==
  [][(outbox' # <<>> /\ frameCount' = frameCount /\ sendSensorUpdate) =>
       /\ UNCHANGED otherVars
       /\ outbox'[1].body.occupancy = Cardinality({j \in 1..Len(cars) : StrictlyInside(cars[j])})
       /\ estimateOccupancy(cars') = outbox'[1].body.occupancy]_vars

\* A sensor report counted a car waiting inside the box, a car moving inside
\* it, and cars outside it
C15_Witness ==
  /\ outbox # <<>>
  /\ outbox[1].endpoint = "sensor"
  /\ outbox[1].body.occupancy >= 2
  /\ outbox[1].body.occupancy < Len(cars)
  /\ \E i, j \in 1..Len(cars) :
       /\ StrictlyInside(cars[i]) /\ isWaiting(cars[i])
       /\ StrictlyInside(cars[j]) /\ ~isWaiting(cars[j])

\* C16: a step that changes a light's colour is the application of a polled
\* or pushed snapshot; frames, spawns, reports and the switch of the
\* intersection change none.
C16_LightsOnlyBySnapshot ==
  [][lights' # lights =>
       \/ \E i \in 1..Len(polls), data \in Snapshots : pollResponse(i, data)
       \/ \E sk \in 1..Len(sockets), msg \in Messages \cup DriveMessages :
            wsMessage(sk, msg)]_vars

\* The lights are as a poll set them, after frames, a spawn and a switch
C16_Witness ==
  /\ lights[1].color = "red" /\ lights[3].color = "green"
  /\ frameCount > 0
  /\ cars # <<>>
  /\ currentIntersection = "side"
  /\ submits > 0

\* One of the two constraints applies to car c of the array cs
ConstraintApplies(c, cs) ==
  \/ mustStopForLight(c, lights) /\ withinBrakingDistance(c)
  \/ needBrakeForCar(c, cs)

RECURSIVE TickChecked(_, _)
\* The frame's loop from index i down on r = [cs, ok]: ok stays true as long
\* as each car's speed after its update is max(0, v - brake) when a
\* constraint applies to it at its turn, and min(vMax, v + acc) when none does
TickChecked(i, r) ==
  IF i = 0 THEN r
  ELSE LET c == r.cs[i]
           d == update(c, r.cs, lights)
           obeys == IF ConstraintApplies(c, r.cs)
                    THEN d.v = Max(0, c.v - c.brake) /\ d.v <= c.v
                    ELSE d.v = Min(c.vMax, c.v + c.acc)
           moved == [r.cs EXCEPT ![i] = d]
           next == IF isOffscreen(d) THEN splice(moved, i) ELSE moved
       IN IF obeys /\ Len(next) >= 0
          THEN TickChecked(i - 1, [cs |-> next, ok |-> r.ok])
          ELSE [cs |-> next, ok |-> FALSE]

\* C17: in a frame, a car to which the light-stop or the following-gap
\* constraint applies ends with speed max(0, v - brake), never more than
\* before; a car to which neither applies ends with min(vMax, v + acc).
C17_BrakingDominates ==
  [][frameCount' # frameCount =>
       LET r == TickChecked(Len(cars), [cs |-> cars, ok |-> TRUE])
       IN r.ok /\ r.cs = cars']_vars

\* Both constraints apply to a car that is faster than one braking step,
\* while another car is free to accelerate
C17_Witness ==
  /\ frameCount > 0
  /\ \E j \in 1..Len(cars) :
       /\ mustStopForLight(cars[j], lights) /\ withinBrakingDistance(cars[j])
       /\ needBrakeForCar(cars[j], cars)
       /\ cars[j].v > cars[j].brake
  /\ \E j \in 1..Len(cars) : ~ConstraintApplies(cars[j], cars) /\ cars[j].v > 0

\* The identities of the cars of cs, from the last to the first
IdsLastToFirst(cs) == [k \in 1..Len(cs) |-> cs[Len(cs) + 1 - k].id]

RECURSIVE UpdateEachOnce(_, _)
\* Every car named in ids is updated once, in that order, wherever it is in
\* the array by then, and removed if the update takes it off the screen
UpdateEachOnce(ids, cs) ==
  IF ids = <<>> THEN cs
  ELSE LET k == CHOOSE j \in 1..Len(cs) : cs[j].id = Head(ids)
           d == update(cs[k], cs, lights)
           moved == [cs EXCEPT ![k] = d]
           next == IF isOffscreen(d) THEN splice(moved, k) ELSE moved
       IN IF Len(next) >= 0 THEN UpdateEachOnce(Tail(ids), next) ELSE next

\* C18: a frame updates every car that was active at its start exactly once,
\* also when cars are removed during the frame.
C18_EachCarOnce ==
  [][frameCount' # frameCount => cars' = UpdateEachOnce(IdsLastToFirst(cars), cars)]_vars

\* A frame removed cars from the middle of the array and moved the others
C18_Witness ==
  /\ frameCount = 1
  /\ totalCarsPassed >= 4
  /\ Len(cars) >= 4
  /\ \A j \in 1..Len(cars) : cars[j].v > 0 \/ mustStopForLight(cars[j], lights)
  /\ \E j \in 1..Len(cars) : cars[j].v > 0

NotOffscreen(c) == ~isOffscreen(c)

\* The frame as the snapshot rule describes it: every car decides against the
\* positions the cars had at the start of the frame
SnapshotTick(cs) ==
  SelectSeq([k \in 1..Len(cs) |-> update(cs[k], cs, lights)], NotOffscreen)

\* C19: the cars after a frame are the cars each updated against the array
\* as it was at the start of the frame.
C19_SnapshotSemantics ==
  [][frameCount' # frameCount => cars' = SnapshotTick(cars)]_vars

\* The count the claim describes: the waiting cars of direction d within the
\* 60 px before their stop line
WaitingInWindow(cs, d) ==
  Cardinality({j \in 1..Len(cs) :
                 /\ cs[j].direction = d
                 /\ cs[j].stopped \/ cs[j].v < waitingSpeed
                 /\ distanceToStop(cs[j]) >= 0
                 /\ distanceToStop(cs[j]) < queueWindow})

\* C20: the arrivals of a sensor report are, per direction, the waiting cars
\* within the window before their stop line; a waiting car beyond its stop
\* line is not counted.
C20_QueuesInWindow ==
  \A k \in 1..Len(outbox) :
    (outbox[k].endpoint = "sensor" /\ "arrivals" \in DOMAIN outbox[k].body) =>
      \A d \in Directions : outbox[k].body.arrivals[d] = WaitingInWindow(cars, d)


\* The sockets whose onmessage can still be called
LiveSockets == {s \in 1..Len(sockets) : sockets[s].state \in {"connecting", "open"}}

\* C21: the open or connecting sockets and the scheduled connection attempts
\* number at most one together, in every reachable state.
C21_SingleConnection == Cardinality(LiveSockets) + timers <= 1


\* C22: a frame removes only cars that have crossed their stop line: every
\* car that a frame takes out of the array had a negative distance to its
\* stop line before the frame, and total-passed grows by the cars removed.
C22_RemovedAfterCrossing ==
  [][frameCount' # frameCount =>
       /\ \A i \in 1..Len(cars) :
            cars[i].id \notin CarIds(cars') => distanceToStop(cars[i]) < 0
       /\ totalCarsPassed' - totalCarsPassed = Cardinality(CarIds(cars) \ CarIds(cars'))]_vars


RECURSIVE PastLineUnaffected(_, _)
\* The frame's loop from index i down on r = [cs, ok]: ok stays true as long
\* as each car that is beyond its stop line at its turn is not marked stopped
\* and, unless the car ahead is too close, ends with min(vMax, v + acc)
PastLineUnaffected(i, r) ==
  IF i = 0 THEN r
  ELSE LET c == r.cs[i]
           d == update(c, r.cs, lights)
           obeys == distanceToStop(c) < 0 =>
                      /\ ~d.stopped
                      /\ needBrakeForCar(c, r.cs) \/ d.v = Min(c.vMax, c.v + c.acc)
           moved == [r.cs EXCEPT ![i] = d]
           next == IF isOffscreen(d) THEN splice(moved, i) ELSE moved
       IN IF obeys /\ Len(next) >= 0
          THEN PastLineUnaffected(i - 1, [cs |-> next, ok |-> r.ok])
          ELSE [cs |-> next, ok |-> FALSE]

\* C23: in a frame, a car whose distance to its stop line is negative is
\* neither slowed nor marked stopped because of its signal: it is not marked
\* stopped, and it accelerates unless the car ahead of it is too close.
C23_PastLineIgnoresSignal ==
  [][frameCount' # frameCount =>
       PastLineUnaffected(Len(cars), [cs |-> cars, ok |-> TRUE]).ok]_vars


\* C24: the response to a state poll that was issued for an intersection
\* other than the one now selected changes neither the lights nor the
\* remaining time.
C24_StalePollIgnored ==
  [][\A i \in 1..Len(polls), data \in Snapshots :
       (polls[i].key # currentIntersection /\ pollResponse(i, data))
         => UNCHANGED phaseVars]_vars

====
